---------------------------- MODULE Spec2Model ----------------------------
(***************************************************************************)
(* Model of the mini-oled SH1106 driver: the bit-packed, rotation-aware    *)
(* canvas with its dirty rectangle (src/src/screen/canvas.rs), the command *)
(* encoding (src/src/command.rs), the driver's init / flush / flush_all /  *)
(* set_rotation / test_screen orchestration (src/src/screen/sh1106.rs),    *)
(* and the I2C transport (src/src/interface/i2c.rs).                       *)
(*                                                                         *)
(* Every public operation is one action.  Spec is the driver over the      *)
(* CommunicationInterface trait: each call on the transport either         *)
(* succeeds or fails, which the actions take as a nondeterministic input.  *)
(* I2cSpec is the layer below: the command serialisation and the           *)
(* I2cInterface over an I2C peripheral, called directly.  RetrySpec is the *)
(* driver with a controller behind the transport and a caller that calls   *)
(* flush again after each flush that failed.                               *)
(***************************************************************************)
EXTENDS Integers, Sequences, FiniteSets, TLC

(***************************************************************************)
(* Program constants (sh1106.rs:34-37).                                    *)
(***************************************************************************)
WIDTH == 128
HEIGHT == 64
OFFSET == 2
BUFFER_SIZE == (WIDTH * HEIGHT) \div 8

(***************************************************************************)
(* Bounds of the exploration.                                              *)
(***************************************************************************)
\* Number of operations in one run.
MaxOps == 3
\* The transport may fail at the k-th call of an operation for k up to this:
\* the command and the data write of the first page and of a later page.
MaxFailAt == 4
\* CommandBuffer::to_bytes is given destinations from one byte shorter than
\* the encoded sequence to this many bytes longer.
MaxSlack == 2
\* The transport fails at most this many flush calls of one run, and none
\* after them.
MaxFailures == 2

\* The DisplayRotation enum (properties.rs:75-84).
DisplayRotation == {"Rotate0", "Rotate90", "Rotate180", "Rotate270"}

\* Logical (x, y) arguments handed to set_pixel: corners, one byte shared by
\* two pixels, points in range under one rotation class only, and points out
\* of range under both.
PixelInputs ==
    { <<0, 0>>, <<10, 10>>, <<10, 11>>, <<127, 63>>, <<64, 5>>,
      <<0, 100>>, <<63, 127>>, <<3, 60>>, <<200, 5>> }

\* Pixel sequences handed to draw_iter, each pixel <<x, y, is_on>>: positions
\* inside the 128 x 64 box only, inside the 64 x 128 box only, inside both,
\* outside both and left of the origin; one pixel drawn twice; no pixel.
DrawInputs ==
    { << <<10, 10, TRUE>>, <<0, 100, TRUE>>, <<100, 5, TRUE>>, <<-1, 3, TRUE>> >>,
      << <<10, 10, TRUE>>, <<10, 11, TRUE>>, <<10, 10, FALSE>> >>,
      << <<127, 63, TRUE>>, <<200, 5, TRUE>>, <<63, 127, TRUE>> >>,
      << >> }

(***************************************************************************)
(* Integer helpers: the u8 / u32 operators the code uses.                  *)
(***************************************************************************)
RECURSIVE Pow2(_)
Pow2(n) == IF n = 0 THEN 1 ELSE 2 * Pow2(n - 1)

\* `as u8`
U8(n) == n % 256
\* A u32 value.  Every u32 the model computes stays below 2^16 (coordinates are
\* below 2^8, pages below 2^3, WIDTH is 2^7), so no u32 operation of the code
\* wraps on these inputs and the value is the integer itself.
U32(n) == n

RECURSIVE BitAnd(_, _)
BitAnd(a, b) ==
    IF a = 0 \/ b = 0 THEN 0
    ELSE (a % 2) * (b % 2) + 2 * BitAnd(a \div 2, b \div 2)

RECURSIVE BitOr(_, _)
BitOr(a, b) ==
    IF a = 0 THEN b
    ELSE IF b = 0 THEN a
    ELSE (IF (a % 2) + (b % 2) > 0 THEN 1 ELSE 0) + 2 * BitOr(a \div 2, b \div 2)

\* !b on a u8
Not8(b) == 255 - b

Min(a, b) == IF a < b THEN a ELSE b

Shr(v, n) == v \div Pow2(n)
Shl32(v, n) == U32(v * Pow2(n))
Shl8(v, n) == U8(v * Pow2(n))

RECURSIVE TrailingZeros(_)
TrailingZeros(n) == IF n % 2 = 1 THEN 0 ELSE 1 + TrailingZeros(n \div 2)

\* macro fast_mul! (screen/mod.rs:31-40): a shift when the right operand is a
\* power of two, a multiplication otherwise; both in u32.
fast_mul(value, right) ==
    LET value_u32 == U32(value) IN
    IF right > 0 /\ BitAnd(right, right - 1) = 0
    THEN Shl32(value_u32, TrailingZeros(right))
    ELSE U32(value_u32 * right)


(***************************************************************************)
(* Command protocol (command.rs).  A command is a record: its variant t    *)
(* and up to two parameter bytes a, b.                                     *)
(***************************************************************************)
Cmd(t, a, b) == [t |-> t, a |-> a, b |-> b]

\* Mutant of PageFrom: the value is not masked.
PageFromUnmasked(val) == U8(val)

\* impl From<u8> for Page (command.rs:256-268): the value masked to 3 bits.
PageFrom(val) == BitAnd(U8(val), 7)

\* Page::range (command.rs:246-248): (start as u8 ..= end as u8).map(Page::from),
\* an ascending sequence, empty when start > end.
PageRange(start, end) ==
    IF start > end THEN << >>
    ELSE [i \in 1..(end - start + 1) |-> PageFrom(start + i - 1)]

\* VcomhLevel as u8 (command.rs:317-326).
VcomhLevel == [V065 |-> 1, V077 |-> 2, V083 |-> 3, Auto |-> 4]

\* Mutant of get_byte_size: VcomhDeselect is taken for a one-byte command.
get_byte_size_VcomhOneByte(c) ==
    IF c.t \in {"Contrast", "Multiplex", "DisplayOffset", "AlternativeComPinConfig",
                "SequentialComPinConfig", "DisplayClockDiv", "PreChargePeriod",
                "EnableChargePump", "DisableChargePump"}
    THEN 2 ELSE 1

\* Command::get_byte_size (command.rs:180-208).
get_byte_size(c) ==
    IF c.t \in {"Contrast", "Multiplex", "DisplayOffset", "AlternativeComPinConfig",
                "SequentialComPinConfig", "DisplayClockDiv", "PreChargePeriod",
                "VcomhDeselect", "EnableChargePump", "DisableChargePump"}
    THEN 2 ELSE 1

\* Command::to_bytes (command.rs:143-177): the byte pair and the used length.
CommandToBytes(c) ==
    LET pair ==
        CASE c.t = "Contrast" -> <<129, c.a>>
          [] c.t = "EnableTestScreen" -> <<165, 0>>
          [] c.t = "DisableTestScreen" -> <<164, 0>>
          [] c.t = "PositiveImageMode" -> <<166, 0>>
          [] c.t = "NegativeImageMode" -> <<167, 0>>
          [] c.t = "TurnDisplayOn" -> <<175, 0>>
          [] c.t = "TurnDisplayOff" -> <<174, 0>>
          [] c.t = "ColumnAddressLow" -> <<BitAnd(15, c.a), 0>>
          [] c.t = "ColumnAddressHigh" -> <<BitOr(16, BitAnd(15, c.a)), 0>>
          [] c.t = "PageAddress" -> <<BitOr(176, c.a), 0>>
          [] c.t = "StartLine" -> <<BitOr(64, BitAnd(63, c.a)), 0>>
          [] c.t = "EnableSegmentRemap" -> <<161, 0>>
          [] c.t = "DisableSegmentRemap" -> <<160, 0>>
          [] c.t = "Multiplex" -> <<168, c.a>>
          [] c.t = "EnableReverseComDir" -> <<200, 0>>
          [] c.t = "DisableReverseComDir" -> <<192, 0>>
          [] c.t = "DisplayOffset" -> <<211, c.a>>
          [] c.t = "AlternativeComPinConfig" -> <<218, 18>>
          [] c.t = "SequentialComPinConfig" -> <<218, 2>>
          [] c.t = "DisplayClockDiv" ->
                <<213, BitOr(Shl8(BitAnd(15, c.a), 4), BitAnd(15, c.b))>>
          [] c.t = "PreChargePeriod" ->
                <<217, BitOr(Shl8(BitAnd(15, c.b), 4), BitAnd(15, c.a))>>
          [] c.t = "VcomhDeselect" -> <<219, Shl8(c.a, 4)>>
          [] c.t = "Noop" -> <<227, 0>>
          [] c.t = "EnableChargePump" -> <<173, 139>>
          [] c.t = "DisableChargePump" -> <<173, 138>>
    IN <<pair, get_byte_size(c)>>

\* The bytes of a command that go on the wire: the used prefix of the pair.
CommandWire(c) ==
    LET r == CommandToBytes(c) IN SubSeq(r[1], 1, r[2])

(***************************************************************************)
(* Transport calls.  A call the driver makes on its CommunicationInterface *)
(* (interface/mod.rs:25-57) is recorded with what it carried and whether   *)
(* the transport returned Ok.                                              *)
(***************************************************************************)
CommandCall(cmds) == [kind |-> "write_command", cmds |-> cmds, bytes |-> << >>, ok |-> TRUE]
DataCall(bytes) == [kind |-> "write_data", cmds |-> << >>, bytes |-> bytes, ok |-> TRUE]

\* The calls a handler goes through when the fail-th one returns Err (0: none
\* does): the `?` operator returns at the first error, so the calls stop there.
Transmit(full, fail) ==
    [i \in 1..(IF fail = 0 THEN Len(full) ELSE fail) |->
        [full[i] EXCEPT !.ok = (i # fail)]]

(***************************************************************************)
(* State.                                                                  *)
(*   buffer, dirty_area_min, dirty_area_max   Canvas (canvas.rs:5-10)      *)
(*       buffer is the array [u8; N], held as the map from the indices of  *)
(*       its non-zero bytes to their values; BufferByte reads it as the    *)
(*       array, BufferStore writes it                                      *)
(*   display_rotation                         DisplayProperties            *)
(*   op, result, calls    the last operation, what it returned, and the    *)
(*                        transport calls it made, in order                *)
(*   written    byte indices written by set_pixel since the last flush     *)
(*              that returned Ok                                           *)
(*   pure       no operation touched the dirty rectangle other than        *)
(*              set_pixel since that flush (or since construction)         *)
(*   pending    logical pixels set since the dirty rectangle was reset     *)
(*   shadow     last value set for each logical pixel under the rotation   *)
(*              in force                                                   *)
(*   nops       number of operations so far                                *)
(*   bus        I2cInterface.i2c (i2c.rs:18-21): the writes the I2C        *)
(*              peripheral received from the last operation made on an     *)
(*              I2cInterface directly                                      *)
(*   dest       the byte array the to_bytes call of the last operation     *)
(*              wrote (the pair of a Command, the destination slice of a   *)
(*              CommandBuffer), as the call left it, and the part of it    *)
(*              that the call returned                                     *)
(*   ram        the display RAM of the SH1106 controller behind the        *)
(*              transport, as the map from (page, column) to the byte last *)
(*              received for it; only the flush of RetrySpec delivers to   *)
(*              it                                                         *)
(*   failures   number of flush calls the transport has failed             *)
(***************************************************************************)
VARIABLES buffer, dirty_area_min, dirty_area_max, display_rotation,
          op, result, calls, written, pure, pending, shadow, nops,
          bus, dest, ram, failures

vars == <<buffer, dirty_area_min, dirty_area_max, display_rotation,
          op, result, calls, written, pure, pending, shadow, nops,
          bus, dest, ram, failures>>

\* dest when the last operation called no to_bytes.
NoDest == [buffer |-> << >>, ret |-> << >>]

\* The state of the interface layer, which no driver operation on the generic
\* CommunicationInterface reaches.
interface == <<bus, dest>>

\* The controller behind the transport and the failures of the transport,
\* which only the runs of RetrySpec follow.
controller == <<ram, failures>>

canvas == <<buffer, dirty_area_min, dirty_area_max, display_rotation>>

Op(name, x, y, v, r) == [name |-> name, x |-> x, y |-> y, v |-> v, r |-> r]

(***************************************************************************)
(* Canvas (canvas.rs).                                                     *)
(***************************************************************************)
\* DisplayProperties::get_display_size (properties.rs:52-54).
get_display_size == <<WIDTH, HEIGHT>>

\* The empty dirty rectangle of Canvas::new and reset_dirty_area
\* (canvas.rs:13-20, 51-54): min = display size, max = (0, 0).
EmptyDirtyArea == <<get_display_size, <<0, 0>>>>

\* Mutant of FullDirtyArea: the maximum corner is (W, H), not (W - 1, H - 1).
FullDirtyAreaOffByOne == <<<<0, 0>>, <<WIDTH, HEIGHT>>>>

\* Canvas::force_full_dirty_area (canvas.rs:46-49).
FullDirtyArea == <<<<0, 0>>, <<WIDTH - 1, HEIGHT - 1>>>>

\* set_pixel's width and height for the rotation (canvas.rs:58-69).
CalculatedSizeForRotation(r) ==
    IF r \in {"Rotate0", "Rotate180"}
    THEN <<get_display_size[1], get_display_size[2]>>
    ELSE <<get_display_size[2], get_display_size[1]>>

\* Mutant of InLogicalRange: the call returns early only when both coordinates
\* are out of range.
InLogicalRangeBothAxes(r, x, y) ==
    ~(x >= CalculatedSizeForRotation(r)[1] /\ y >= CalculatedSizeForRotation(r)[2])

\* Mutant of InLogicalRange: the physical size is used under every rotation.
InLogicalRangeNoSwap(r, x, y) ==
    ~(x >= get_display_size[1] \/ y >= get_display_size[2])

\* set_pixel's range check (canvas.rs:71-73): FALSE is the early return.
InLogicalRange(r, x, y) ==
    ~(x >= CalculatedSizeForRotation(r)[1] \/ y >= CalculatedSizeForRotation(r)[2])

\* set_pixel's four comparisons (canvas.rs:75-86): the dirty rectangle grown
\* to hold (x, y).
ExpandDirtyArea(dmin, dmax, x, y) ==
    << << IF x < dmin[1] THEN x ELSE dmin[1], IF y < dmin[2] THEN y ELSE dmin[2] >>,
       << IF x > dmax[1] THEN x ELSE dmax[1], IF y > dmax[2] THEN y ELSE dmax[2] >> >>

\* Mutant of PixelAddr: the Rotate0 formula is used under every rotation.
PixelAddrNoRotation(r, x, y) ==
    << U32(fast_mul(Shr(y, 3), WIDTH) + x), Shl8(1, BitAnd(y, 7)) >>

\* set_pixel's byte index and bit mask (canvas.rs:88-99).
PixelAddr(r, x, y) ==
    IF r \in {"Rotate0", "Rotate180"}
    THEN << U32(fast_mul(Shr(y, 3), WIDTH) + x), Shl8(1, BitAnd(y, 7)) >>
    ELSE << U32(fast_mul(Shr(x, 3), WIDTH) + y), Shl8(1, BitAnd(x, 7)) >>

\* buffer[i] of the array [u8; N] (canvas.rs:6).
BufferByte(buf, i) == IF i \in DOMAIN buf THEN buf[i] ELSE 0

\* buffer[i] = b
BufferStore(buf, i, b) ==
    [j \in (IF b = 0 THEN DOMAIN buf \ {i} ELSE DOMAIN buf \cup {i}) |->
        IF j = i THEN b ELSE buf[j]]

\* set_pixel's masked store (canvas.rs:107-110); an index past the buffer is
\* dropped.
StorePixel(buf, idx, bit_mask, pixel_status) ==
    IF idx < BUFFER_SIZE
    THEN LET pixel_status_mask == IF pixel_status THEN 255 ELSE 0 IN
         BufferStore(buf, idx,
            BitOr(BitAnd(BufferByte(buf, idx), Not8(bit_mask)),
                  BitAnd(pixel_status_mask, bit_mask)))
    ELSE buf

\* Canvas::set_pixel (canvas.rs:57-111).
set_pixel(x, y, pixel_status) ==
    /\ nops < MaxOps
    /\ nops' = nops + 1
    /\ op' = Op("set_pixel", x, y, pixel_status, display_rotation)
    /\ result' = "ok"
    /\ calls' = << >>
    /\ UNCHANGED <<display_rotation, pure>>
    /\ UNCHANGED interface
    /\ UNCHANGED controller
    /\ IF ~InLogicalRange(display_rotation, x, y)
       THEN UNCHANGED <<buffer, dirty_area_min, dirty_area_max, written, pending, shadow>>
       ELSE LET d == ExpandDirtyArea(dirty_area_min, dirty_area_max, x, y)
                a == PixelAddr(display_rotation, x, y)
            IN /\ dirty_area_min' = d[1]
               /\ dirty_area_max' = d[2]
               /\ buffer' = StorePixel(buffer, a[1], a[2], pixel_status)
               /\ written' = written \cup (IF a[1] < BUFFER_SIZE THEN {a[1]} ELSE {})
               /\ pending' = pending \cup {<<x, y>>}
               /\ shadow' = [p \in DOMAIN shadow \cup {<<x, y>>} |->
                                IF p = <<x, y>> THEN pixel_status ELSE shadow[p]]

\* Canvas::set_pixel (canvas.rs:57-111) as a function of the canvas c it is
\* called on, for the calls draw_iter makes: c holds the buffer, the dirty
\* rectangle and what is recorded of the pixels set.
SetPixelOn(c, r, x, y, pixel_status) ==
    IF ~InLogicalRange(r, x, y) THEN c
    ELSE LET d == ExpandDirtyArea(c.dirty_area_min, c.dirty_area_max, x, y)
             a == PixelAddr(r, x, y)
         IN [buffer |-> StorePixel(c.buffer, a[1], a[2], pixel_status),
             dirty_area_min |-> d[1],
             dirty_area_max |-> d[2],
             written |-> c.written \cup (IF a[1] < BUFFER_SIZE THEN {a[1]} ELSE {}),
             pending |-> c.pending \cup {<<x, y>>},
             shadow |-> [p \in DOMAIN c.shadow \cup {<<x, y>>} |->
                            IF p = <<x, y>> THEN pixel_status ELSE c.shadow[p]]]

\* OriginDimensions::size (canvas.rs:144-149): the display size, read without
\* the rotation.
size == <<get_display_size[1], get_display_size[2]>>

\* self.bounding_box().contains(pos) (canvas.rs:130, 134): the rectangle at
\* the origin of size size().  pos is a Point of signed coordinates.
BoundingBoxContains(pos) ==
    /\ pos[1] >= 0 /\ pos[1] < size[1]
    /\ pos[2] >= 0 /\ pos[2] < size[2]

\* draw_iter's filter and for_each (canvas.rs:132-137) from the k-th pixel on;
\* a pixel is <<x, y, is_on>>.
RECURSIVE DrawPixels(_, _, _, _)
DrawPixels(c, r, pixels, k) ==
    IF k > Len(pixels) THEN c
    ELSE LET p == pixels[k] IN
         DrawPixels(IF BoundingBoxContains(<<p[1], p[2]>>)
                    THEN SetPixelOn(c, r, U32(p[1]), U32(p[2]), p[3])
                    ELSE c,
                    r, pixels, k + 1)

\* The canvas in the state.
CanvasNow ==
    [buffer |-> buffer, dirty_area_min |-> dirty_area_min,
     dirty_area_max |-> dirty_area_max, written |-> written,
     pending |-> pending, shadow |-> shadow]

\* DrawTarget::draw_iter (canvas.rs:126-140).
draw_iter(pixels) ==
    /\ nops < MaxOps
    /\ \E c \in {DrawPixels(CanvasNow, display_rotation, pixels, 1)} :
        /\ nops' = nops + 1
        /\ op' = [name |-> "draw_iter", pixels |-> pixels, r |-> display_rotation]
        /\ result' = "ok"
        /\ calls' = << >>
        /\ buffer' = c.buffer
        /\ dirty_area_min' = c.dirty_area_min
        /\ dirty_area_max' = c.dirty_area_max
        /\ written' = c.written
        /\ pending' = c.pending
        /\ shadow' = c.shadow
        /\ UNCHANGED <<display_rotation, pure>>
        /\ UNCHANGED interface
        /\ UNCHANGED controller

\* Canvas::force_full_dirty_area (canvas.rs:46-49).
force_full_dirty_area ==
    /\ nops < MaxOps
    /\ nops' = nops + 1
    /\ op' = Op("force_full_dirty_area", 0, 0, FALSE, display_rotation)
    /\ result' = "ok"
    /\ calls' = << >>
    /\ dirty_area_min' = FullDirtyArea[1]
    /\ dirty_area_max' = FullDirtyArea[2]
    /\ pure' = FALSE
    /\ UNCHANGED <<buffer, display_rotation, written, pending, shadow>>
    /\ UNCHANGED interface
    /\ UNCHANGED controller

\* Canvas::reset_dirty_area (canvas.rs:51-54).
reset_dirty_area ==
    /\ nops < MaxOps
    /\ nops' = nops + 1
    /\ op' = Op("reset_dirty_area", 0, 0, FALSE, display_rotation)
    /\ result' = "ok"
    /\ calls' = << >>
    /\ dirty_area_min' = EmptyDirtyArea[1]
    /\ dirty_area_max' = EmptyDirtyArea[2]
    /\ pending' = {}
    /\ pure' = FALSE
    /\ UNCHANGED <<buffer, display_rotation, written, shadow>>
    /\ UNCHANGED interface
    /\ UNCHANGED controller

(***************************************************************************)
(* Driver (sh1106.rs).                                                     *)
(***************************************************************************)
\* Mutant of FlushIsEmpty: the early return is missing.
FlushIsEmptyNever(dmin, dmax) == FALSE

\* flush's early return (sh1106.rs:98-100).
FlushIsEmpty(dmin, dmax) == dmin[1] > dmax[1] \/ dmin[2] > dmax[2]

\* flush's start and end page (sh1106.rs:102-103).
StartPage(dmin) == PageFrom(U8(Shr(dmin[2], 3)))
EndPage(dmax) == PageFrom(U8(Shr(dmax[2], 3)))

\* Mutant of Slice: the range start..end, which leaves the last byte out.
SliceExclusiveEnd(buf, start, end) ==
    IF start >= end THEN << >>
    ELSE [i \in 1..(end - start) |-> BufferByte(buf, start + i - 1)]

\* &pixel_buffer[start..=end] (sh1106.rs:115).
Slice(buf, start, end) ==
    IF start > end THEN << >>
    ELSE [i \in 1..(end - start + 1) |-> BufferByte(buf, start + i - 1)]

\* Mutant of AddressingGroup: the column-high command is given the whole column
\* address, not the address shifted right by 4.
AddressingGroupHighUnshifted(page, dmin) ==
    LET current_column == U32(dmin[1] + OFFSET) IN
    << Cmd("PageAddress", page, 0),
       Cmd("ColumnAddressLow", U8(current_column), 0),
       Cmd("ColumnAddressHigh", U8(current_column), 0) >>

\* Mutant of AddressingGroup: the column offset is not added.
AddressingGroupNoOffset(page, dmin) ==
    LET current_column == U32(dmin[1]) IN
    << Cmd("PageAddress", page, 0),
       Cmd("ColumnAddressLow", U8(current_column), 0),
       Cmd("ColumnAddressHigh", U8(Shr(current_column, 4)), 0) >>

\* The addressing group of one page (sh1106.rs:116-122).
AddressingGroup(page, dmin) ==
    LET current_column == U32(dmin[1] + OFFSET) IN
    << Cmd("PageAddress", page, 0),
       Cmd("ColumnAddressLow", U8(current_column), 0),
       Cmd("ColumnAddressHigh", U8(Shr(current_column, 4)), 0) >>

\* Mutant of PageCalls: the pixel data is written before the addressing group.
PageCallsDataFirst(buf, page, dmin, dmax) ==
    LET page_start_idx == U32(fast_mul(page, WIDTH) + dmin[1])
        page_end_idx == U32(fast_mul(page, WIDTH) + dmax[1])
    IN << DataCall(Slice(buf, page_start_idx, page_end_idx)),
          CommandCall(AddressingGroup(page, dmin)) >>

\* The two transport calls of one page (sh1106.rs:108-126).
PageCalls(buf, page, dmin, dmax) ==
    LET page_start_idx == U32(fast_mul(page, WIDTH) + dmin[1])
        page_end_idx == U32(fast_mul(page, WIDTH) + dmax[1])
    IN << CommandCall(AddressingGroup(page, dmin)),
          DataCall(Slice(buf, page_start_idx, page_end_idx)) >>

\* flush's loop over the pages (sh1106.rs:107-127); a page whose end index is
\* past the buffer breaks the loop.
RECURSIVE FlushPages(_, _, _, _, _)
FlushPages(buf, pages, k, dmin, dmax) ==
    IF k > Len(pages) THEN << >>
    ELSE IF U32(fast_mul(pages[k], WIDTH) + dmax[1]) >= BUFFER_SIZE THEN << >>
    ELSE PageCalls(buf, pages[k], dmin, dmax) \o FlushPages(buf, pages, k + 1, dmin, dmax)

\* Every transport call a flush of this dirty rectangle makes when none fails.
FlushCalls(buf, dmin, dmax) ==
    IF FlushIsEmpty(dmin, dmax) THEN << >>
    ELSE FlushPages(buf, PageRange(StartPage(dmin), EndPage(dmax)), 1, dmin, dmax)

\* Mutant of FlushDirtyArea: the reset also runs when it is a data write that
\* failed.
FlushDirtyAreaResetOnDataError(dmin, dmax, fail) ==
    IF FlushIsEmpty(dmin, dmax) \/ fail % 2 = 1 THEN <<dmin, dmax>> ELSE EmptyDirtyArea

\* Mutant of FlushDirtyArea: the reset also runs when a transport call failed.
FlushDirtyAreaResetOnError(dmin, dmax, fail) ==
    IF FlushIsEmpty(dmin, dmax) THEN <<dmin, dmax>> ELSE EmptyDirtyArea

\* Mutant of FlushDirtyArea: the reset after the loop is missing.
FlushDirtyAreaNeverReset(dmin, dmax, fail) == <<dmin, dmax>>

\* The dirty rectangle flush leaves (sh1106.rs:98-100, 124-130): untouched by
\* the early return and by a transport error, reset after the loop.
FlushDirtyArea(dmin, dmax, fail) ==
    IF FlushIsEmpty(dmin, dmax) \/ fail # 0 THEN <<dmin, dmax>> ELSE EmptyDirtyArea

\* Sh1106::flush (sh1106.rs:95-131) on the dirty rectangle (dmin, dmax); the
\* fail-th transport call returns Err (0: none does).
DoFlush(name, dmin, dmax) ==
    \E full \in {FlushCalls(buffer, dmin, dmax)} :
    \E fail \in 0..Min(Len(full), MaxFailAt) :
    \E d \in {FlushDirtyArea(dmin, dmax, fail)} :
        /\ nops' = nops + 1
        /\ op' = Op(name, 0, 0, FALSE, display_rotation)
        /\ calls' = Transmit(full, fail)
        /\ result' = IF fail = 0 THEN "ok" ELSE "err"
        /\ dirty_area_min' = d[1]
        /\ dirty_area_max' = d[2]
        /\ written' = IF fail = 0 THEN {} ELSE written
        /\ pure' = (fail = 0)
        /\ pending' = IF fail = 0 /\ ~FlushIsEmpty(dmin, dmax) THEN {} ELSE pending
        /\ UNCHANGED <<buffer, display_rotation, shadow>>
        /\ UNCHANGED interface

flush ==
    /\ nops < MaxOps
    /\ DoFlush("flush", dirty_area_min, dirty_area_max)
    /\ UNCHANGED controller

\* Sh1106::flush_all (sh1106.rs:87-90): force_full_dirty_area, then flush.
flush_all ==
    /\ nops < MaxOps
    /\ DoFlush("flush_all", FullDirtyArea[1], FullDirtyArea[2])
    /\ UNCHANGED controller

\* Mutant of RotationSequence: the sequences of Rotate90 and Rotate270 are
\* exchanged.
RotationSequenceQuarterTurnsSwapped(r) ==
    CASE r = "Rotate0" -> << Cmd("EnableSegmentRemap", 0, 0), Cmd("EnableReverseComDir", 0, 0) >>
      [] r = "Rotate270" -> << Cmd("DisableSegmentRemap", 0, 0), Cmd("EnableReverseComDir", 0, 0) >>
      [] r = "Rotate180" -> << Cmd("DisableSegmentRemap", 0, 0), Cmd("DisableReverseComDir", 0, 0) >>
      [] r = "Rotate90" -> << Cmd("EnableSegmentRemap", 0, 0), Cmd("DisableReverseComDir", 0, 0) >>

\* The two commands of a rotation (sh1106.rs:153-165).
RotationSequence(r) ==
    CASE r = "Rotate0" -> << Cmd("EnableSegmentRemap", 0, 0), Cmd("EnableReverseComDir", 0, 0) >>
      [] r = "Rotate90" -> << Cmd("DisableSegmentRemap", 0, 0), Cmd("EnableReverseComDir", 0, 0) >>
      [] r = "Rotate180" -> << Cmd("DisableSegmentRemap", 0, 0), Cmd("DisableReverseComDir", 0, 0) >>
      [] r = "Rotate270" -> << Cmd("EnableSegmentRemap", 0, 0), Cmd("DisableReverseComDir", 0, 0) >>

\* Mutant of set_rotation: the rotation is stored after the transport call, and
\* only when it succeeded.
set_rotation_StoredOnSuccess(r, fail) ==
    /\ nops < MaxOps
    /\ nops' = nops + 1
    /\ op' = Op("set_rotation", 0, 0, FALSE, r)
    /\ display_rotation' = IF fail = 0 THEN r ELSE display_rotation
    /\ calls' = Transmit(<< CommandCall(RotationSequence(r)) >>, fail)
    /\ result' = IF fail = 0 THEN "ok" ELSE "err"
    /\ shadow' = IF display_rotation' = display_rotation THEN shadow ELSE << >>
    /\ UNCHANGED <<buffer, dirty_area_min, dirty_area_max, written, pure, pending>>
    /\ UNCHANGED interface
    /\ UNCHANGED controller

\* Sh1106::set_rotation (sh1106.rs:150-169): the rotation is stored first, then
\* the transport is called once.
set_rotation(r, fail) ==
    /\ nops < MaxOps
    /\ nops' = nops + 1
    /\ op' = Op("set_rotation", 0, 0, FALSE, r)
    /\ display_rotation' = r
    /\ calls' = Transmit(<< CommandCall(RotationSequence(r)) >>, fail)
    /\ result' = IF fail = 0 THEN "ok" ELSE "err"
    /\ shadow' = IF r = display_rotation THEN shadow ELSE << >>
    /\ UNCHANGED <<buffer, dirty_area_min, dirty_area_max, written, pure, pending>>
    /\ UNCHANGED interface
    /\ UNCHANGED controller

\* Mutant of InitSequence: the multiplex ratio is the height, not height - 1.
InitSequenceMultiplexHeight ==
    << Cmd("TurnDisplayOff", 0, 0),
       Cmd("DisplayClockDiv", 8, 0),
       Cmd("Multiplex", U8(get_display_size[2]), 0),
       Cmd("DisplayOffset", 0, 0),
       Cmd("StartLine", 0, 0),
       Cmd("EnableChargePump", 0, 0),
       Cmd("EnableSegmentRemap", 0, 0),
       Cmd("EnableReverseComDir", 0, 0),
       Cmd("AlternativeComPinConfig", 0, 0),
       Cmd("Contrast", 128, 0),
       Cmd("PreChargePeriod", 1, 15),
       Cmd("VcomhDeselect", VcomhLevel.Auto, 0),
       Cmd("DisableTestScreen", 0, 0),
       Cmd("PositiveImageMode", 0, 0),
       Cmd("TurnDisplayOn", 0, 0) >>

\* init's CommandBuffer<15> (sh1106.rs:175-192).
InitSequence ==
    << Cmd("TurnDisplayOff", 0, 0),
       Cmd("DisplayClockDiv", 8, 0),
       Cmd("Multiplex", U8(get_display_size[2]) - 1, 0),
       Cmd("DisplayOffset", 0, 0),
       Cmd("StartLine", 0, 0),
       Cmd("EnableChargePump", 0, 0),
       Cmd("EnableSegmentRemap", 0, 0),
       Cmd("EnableReverseComDir", 0, 0),
       Cmd("AlternativeComPinConfig", 0, 0),
       Cmd("Contrast", 128, 0),
       Cmd("PreChargePeriod", 1, 15),
       Cmd("VcomhDeselect", VcomhLevel.Auto, 0),
       Cmd("DisableTestScreen", 0, 0),
       Cmd("PositiveImageMode", 0, 0),
       Cmd("TurnDisplayOn", 0, 0) >>

\* Sh1106::init (sh1106.rs:174-195): one write_command of the init sequence.
init(fail) ==
    /\ nops < MaxOps
    /\ nops' = nops + 1
    /\ op' = Op("init", 0, 0, FALSE, display_rotation)
    /\ calls' = Transmit(<< CommandCall(InitSequence) >>, fail)
    /\ result' = IF fail = 0 THEN "ok" ELSE "err"
    /\ UNCHANGED <<buffer, dirty_area_min, dirty_area_max, display_rotation,
                   written, pure, pending, shadow>>
    /\ UNCHANGED interface
    /\ UNCHANGED controller

\* Mutant of TestScreenSequence: the command that leaves the test screen.
TestScreenSequenceDisable == << Cmd("DisableTestScreen", 0, 0) >>

\* test_screen's CommandBuffer<1> (sh1106.rs:140).
TestScreenSequence == << Cmd("EnableTestScreen", 0, 0) >>

\* Sh1106::test_screen (sh1106.rs:139-143): one write_command.
test_screen(fail) ==
    /\ nops < MaxOps
    /\ nops' = nops + 1
    /\ op' = Op("test_screen", 0, 0, FALSE, display_rotation)
    /\ calls' = Transmit(<< CommandCall(TestScreenSequence) >>, fail)
    /\ result' = IF fail = 0 THEN "ok" ELSE "err"
    /\ UNCHANGED <<buffer, dirty_area_min, dirty_area_max, display_rotation,
                   written, pure, pending, shadow>>
    /\ UNCHANGED interface
    /\ UNCHANGED controller

(***************************************************************************)
(* Sh1106::new (sh1106.rs:67-74) with Canvas::new (canvas.rs:13-20).       *)
(***************************************************************************)
Init ==
    /\ buffer = << >>
    /\ dirty_area_min = EmptyDirtyArea[1]
    /\ dirty_area_max = EmptyDirtyArea[2]
    /\ display_rotation = "Rotate0"
    /\ op = Op("new", 0, 0, FALSE, "Rotate0")
    /\ result = "ok"
    /\ calls = << >>
    /\ written = {}
    /\ pure = TRUE
    /\ pending = {}
    /\ shadow = << >>
    /\ nops = 0
    /\ bus = << >>
    /\ dest = NoDest
    /\ ram = << >>
    /\ failures = 0

Next ==
    \/ \E p \in PixelInputs, v \in BOOLEAN : set_pixel(p[1], p[2], v)
    \/ \E r \in DisplayRotation, fail \in 0..1 : set_rotation(r, fail)
    \/ \E fail \in 0..1 : init(fail)
    \/ \E fail \in 0..1 : test_screen(fail)
    \/ \E pixels \in DrawInputs : draw_iter(pixels)
    \/ force_full_dirty_area
    \/ reset_dirty_area
    \/ flush
    \/ flush_all

Spec == Init /\ [][Next]_vars

(***************************************************************************)
(* The interface layer on its own: Command::to_bytes and                   *)
(* CommandBuffer::to_bytes (command.rs) and the I2cInterface               *)
(* (interface/i2c.rs) over an I2C peripheral, each called directly.  The   *)
(* driver state stays as constructed.                                      *)
(***************************************************************************)
\* The canvas and what is recorded about it.
driver == <<buffer, dirty_area_min, dirty_area_max, display_rotation,
            calls, written, pure, pending, shadow>>

\* Parameter bytes the commands are built with: the ends of the u8 range and
\* the values around the 4-bit and 6-bit masks.
ParamBytes == {0, 1, 15, 16, 63, 64, 128, 255}
SecondParamBytes == {0, 15, 16, 255}

\* Command values (command.rs:71-140): every variant, with these parameters.
CommandInputs ==
    { Cmd(t, 0, 0) : t \in {"EnableTestScreen", "DisableTestScreen", "PositiveImageMode",
                            "NegativeImageMode", "TurnDisplayOn", "TurnDisplayOff",
                            "EnableSegmentRemap", "DisableSegmentRemap",
                            "EnableReverseComDir", "DisableReverseComDir",
                            "AlternativeComPinConfig", "SequentialComPinConfig",
                            "Noop", "EnableChargePump", "DisableChargePump"} }
    \cup { Cmd(t, a, 0) : t \in {"Contrast", "ColumnAddressLow", "ColumnAddressHigh",
                                 "StartLine", "Multiplex", "DisplayOffset"},
                          a \in ParamBytes }
    \cup { Cmd("PageAddress", p, 0) : p \in 0..7 }
    \cup { Cmd("VcomhDeselect", l, 0) : l \in {VcomhLevel.V065, VcomhLevel.V077,
                                               VcomhLevel.V083, VcomhLevel.Auto} }
    \cup { Cmd(t, a, b) : t \in {"DisplayClockDiv", "PreChargePeriod"},
                          a \in ParamBytes, b \in SecondParamBytes }

\* n copies of Contrast(0x7F), 2 bytes each.
Contrasts(n) == [i \in 1..n |-> Cmd("Contrast", 127, 0)]

\* Command buffers: those the driver builds, the one of the crate's example,
\* and buffers of 28, 29 and 30 encoded bytes.
CommandBufferInputs ==
    { TestScreenSequence,
      RotationSequence("Rotate0"),
      RotationSequence("Rotate180"),
      AddressingGroup(1, <<10, 10>>),
      InitSequence,
      << Cmd("TurnDisplayOn", 0, 0), Cmd("Contrast", 255, 0) >>,
      Contrasts(14),
      Contrasts(14) \o << Cmd("Noop", 0, 0) >>,
      Contrasts(15) }

\* Pixel data slices (data_buf) of 0, 1, 3, 127, 128, 129 and 131 bytes.
DataInputs ==
    { [i \in 1..n |-> (7 * i) % 256] : n \in {0, 1, 3, 127, 128, 129, 131} }

\* The sum of the encoded lengths of a command sequence.
RECURSIVE EncodedLength(_)
EncodedLength(cmds) ==
    IF cmds = << >> THEN 0
    ELSE get_byte_size(Head(cmds)) + EncodedLength(Tail(cmds))

\* Command::to_bytes (command.rs:143-177), called directly.
command_to_bytes(c) ==
    /\ nops < MaxOps
    /\ nops' = nops + 1
    /\ op' = [name |-> "Command::to_bytes", cmd |-> c]
    /\ result' = "ok"
    /\ dest' = [buffer |-> CommandToBytes(c)[1],
                ret |-> SubSeq(CommandToBytes(c)[1], 1, CommandToBytes(c)[2])]
    /\ bus' = << >>
    /\ UNCHANGED driver
    /\ UNCHANGED controller

\* buffer[at..at + n].copy_from_slice(&src[0..n]) (command.rs:61-62) with
\* at + n <= buffer.len(): the slice with n bytes replaced, from 0-based
\* offset at.
CopyFromSlice(dst, at, src, n) ==
    [i \in 1..Len(dst) |->
        IF i > at /\ i <= at + n THEN src[i - at] ELSE dst[i]]

\* The loop of CommandBuffer::to_bytes (command.rs:56-65) from the k-th
\* command on; dst is the parameter `buffer`.  The outcome holds the result,
\* the destination slice as the call leaves it, and the slice returned.  Slicing past the end of a slice
\* panics.
RECURSIVE ToBytesLoop(_, _, _, _)
ToBytesLoop(cmds, k, dst, output_length) ==
    IF k > Len(cmds)
    THEN IF output_length > Len(dst)
         THEN [result |-> "panic", buffer |-> dst, ret |-> << >>]
         ELSE [result |-> "ok", buffer |-> dst,
               ret |-> SubSeq(dst, 1, output_length)]
    ELSE LET command_bytes == CommandToBytes(cmds[k])[1]
             bytes_length == CommandToBytes(cmds[k])[2]
         IN IF output_length + bytes_length > Len(dst)
            THEN [result |-> "CommandBufferSizeError", buffer |-> dst, ret |-> << >>]
            ELSE ToBytesLoop(cmds, k + 1,
                    CopyFromSlice(dst, output_length, command_bytes, bytes_length),
                    output_length + bytes_length)

\* CommandBuffer::to_bytes (command.rs:54-66): output_length starts at 1.
CommandBufferToBytes(cmds, dst) == ToBytesLoop(cmds, 1, dst, 1)

\* The byte an untouched destination slice is filled with.
Unwritten == 255

\* The destination lengths tried for a sequence of encoded length n: from one
\* byte short of n to MaxSlack bytes more.
DestLengths(n) == { l \in (n - 1)..(n + MaxSlack) : l >= 0 }

\* CommandBuffer::to_bytes (command.rs:54-66), called directly on a
\* destination slice of len bytes.
to_bytes(cmds, len) ==
    /\ nops < MaxOps
    /\ \E t \in {CommandBufferToBytes(cmds, [i \in 1..len |-> Unwritten])} :
        /\ nops' = nops + 1
        /\ op' = [name |-> "CommandBuffer::to_bytes", cmds |-> cmds, len |-> len]
        /\ result' = t.result
        /\ dest' = [buffer |-> t.buffer, ret |-> t.ret]
        /\ bus' = << >>
        /\ UNCHANGED driver
        /\ UNCHANGED controller

\* Mutant of I2cWriteData: the size check is missing.
I2cWriteDataNoSizeCheck(data_buf, i2c_ok) ==
    LET send_buf == [i \in 1..130 |->
                        IF i = 1 THEN 64
                        ELSE IF i <= Len(data_buf) + 1 THEN data_buf[i - 1] ELSE 0]
    IN IF Len(data_buf) + 1 > 130
       THEN [result |-> "panic", bus |-> << >>]
       ELSE [result |-> IF i2c_ok THEN "ok" ELSE "I2cError",
             bus |-> << SubSeq(send_buf, 1, Len(data_buf) + 1) >>]

\* I2cInterface::write_data (i2c.rs:40-50): the result and the writes made on
\* the I2C peripheral, whose write returns Ok or an error.
I2cWriteData(data_buf, i2c_ok) ==
    IF Len(data_buf) > 128
    THEN [result |-> "DataBufferSizeError", bus |-> << >>]
    ELSE LET send_buf == [i \in 1..130 |->
                            IF i = 1 THEN 64
                            ELSE IF i <= Len(data_buf) + 1 THEN data_buf[i - 1] ELSE 0]
         IN [result |-> IF i2c_ok THEN "ok" ELSE "I2cError",
             bus |-> << SubSeq(send_buf, 1, Len(data_buf) + 1) >>]

\* Mutant of I2cWriteCommand: the send buffer has 24 bytes, the mode byte and
\* the 23 encoded bytes of the init sequence.
I2cWriteCommandSendBuf24(cmds, i2c_ok) ==
    LET t == CommandBufferToBytes(cmds, [i \in 1..23 |-> 0])
        send_buf == <<0>> \o t.buffer
        len == Len(t.ret)
    IN IF t.result # "ok"
       THEN [result |-> t.result, bus |-> << >>, dest |-> t]
       ELSE [result |-> IF i2c_ok THEN "ok" ELSE "I2cError",
             bus |-> << SubSeq(send_buf, 1, len + 1) >>, dest |-> t]

\* I2cInterface::write_command (i2c.rs:52-63): to_bytes serialises into
\* send_buf[1..], then send_buf[..len + 1] is written to the peripheral.
I2cWriteCommand(cmds, i2c_ok) ==
    LET t == CommandBufferToBytes(cmds, [i \in 1..29 |-> 0])
        send_buf == <<0>> \o t.buffer
        len == Len(t.ret)
    IN IF t.result # "ok"
       THEN [result |-> t.result, bus |-> << >>, dest |-> t]
       ELSE [result |-> IF i2c_ok THEN "ok" ELSE "I2cError",
             bus |-> << SubSeq(send_buf, 1, len + 1) >>, dest |-> t]

\* CommunicationInterface::write_data on an I2cInterface.
write_data(data_buf, i2c_ok) ==
    /\ nops < MaxOps
    /\ \E w \in {I2cWriteData(data_buf, i2c_ok)} :
        /\ nops' = nops + 1
        /\ op' = [name |-> "write_data", data |-> data_buf, i2c_ok |-> i2c_ok]
        /\ result' = w.result
        /\ bus' = w.bus
        /\ dest' = NoDest
        /\ UNCHANGED driver
        /\ UNCHANGED controller

\* CommunicationInterface::write_command on an I2cInterface.
write_command(cmds, i2c_ok) ==
    /\ nops < MaxOps
    /\ \E w \in {I2cWriteCommand(cmds, i2c_ok)} :
        /\ nops' = nops + 1
        /\ op' = [name |-> "write_command", cmds |-> cmds, i2c_ok |-> i2c_ok]
        /\ result' = w.result
        /\ bus' = w.bus
        /\ dest' = [buffer |-> w.dest.buffer, ret |-> w.dest.ret]
        /\ UNCHANGED driver
        /\ UNCHANGED controller

I2cNext ==
    \/ \E c \in CommandInputs : command_to_bytes(c)
    \/ \E cmds \in CommandBufferInputs :
            \E len \in DestLengths(EncodedLength(cmds)) : to_bytes(cmds, len)
    \/ \E cmds \in CommandBufferInputs, i2c_ok \in BOOLEAN : write_command(cmds, i2c_ok)
    \/ \E data_buf \in DataInputs, i2c_ok \in BOOLEAN : write_data(data_buf, i2c_ok)

\* I2cInterface::new (i2c.rs:30-32): nothing written yet.
I2cSpec == Init /\ [][I2cNext]_vars

(***************************************************************************)
(* The driver wired to a controller, under Rotate0: set_pixel and flush,   *)
(* with a caller that calls flush again after each flush that failed, and  *)
(* a transport that fails at most MaxFailures flush calls.  The controller *)
(* takes what each transport call that returned Ok carried.                *)
(***************************************************************************)
\* Logical (x, y) arguments handed to set_pixel in these runs: pixels of the
\* last eight columns (controller columns 122 to 129, on both sides of a
\* change of the high nibble) in the first, second and last page, two of them
\* in one byte, and a point out of range.
RetryPixels == { <<120, 0>>, <<127, 10>>, <<127, 11>>, <<124, 60>>, <<200, 5>> }

\* The last operation is a flush that returned an error.
FlushFailed == op.name = "flush" /\ result = "err"

\* The page and the column the controller's address registers hold after the
\* three encoded bytes of an addressing group: 0xB0 + page sets the page, a
\* byte 0x00..0x0F the low nibble of the column, 0x10..0x1F its high nibble.
ControllerPage(cmds) == CommandWire(cmds[1])[1] - 176
ControllerColumn(cmds) ==
    16 * (CommandWire(cmds[3])[1] - 16) + CommandWire(cmds[2])[1]

\* The data writes of cs that reached the controller, each by the position of
\* its addressing group: both calls returned Ok.
Delivered(cs) ==
    { k \in 1..(Len(cs) - 1) :
        /\ cs[k].kind = "write_command" /\ cs[k].ok
        /\ cs[k + 1].kind = "write_data" /\ cs[k + 1].ok }

\* The data write after the addressing group cs[k] stores a byte at the RAM
\* cell key: the bytes land in successive columns of the page addressed.
StoresAt(cs, k, key) ==
    /\ key[1] = ControllerPage(cs[k].cmds)
    /\ key[2] >= ControllerColumn(cs[k].cmds)
    /\ key[2] < ControllerColumn(cs[k].cmds) + Len(cs[k + 1].bytes)

\* The controller's RAM after the transport calls cs of one flush: a call that
\* returned Err delivered nothing.  The groups of one flush address distinct
\* pages, so at most one data write stores at a cell.
Receive(mem, cs) ==
    [key \in DOMAIN mem \cup
              UNION { { <<ControllerPage(cs[k].cmds), ControllerColumn(cs[k].cmds) + i - 1>> :
                            i \in 1..Len(cs[k + 1].bytes) } : k \in Delivered(cs) } |->
        IF \E k \in Delivered(cs) : StoresAt(cs, k, key)
        THEN LET k == CHOOSE k \in Delivered(cs) : StoresAt(cs, k, key)
             IN cs[k + 1].bytes[key[2] - ControllerColumn(cs[k].cmds) + 1]
        ELSE mem[key]]

\* Sh1106::flush (sh1106.rs:95-131) with the controller behind the transport.
\* It is called while operations are left in the run, and again after a flush
\* that failed.
flush_to_controller ==
    /\ nops < MaxOps \/ FlushFailed
    /\ DoFlush("flush", dirty_area_min, dirty_area_max)
    /\ failures' = IF result' = "err" THEN failures + 1 ELSE failures
    /\ failures' <= MaxFailures
    /\ ram' = Receive(ram, calls')

RetryNext ==
    \/ \E p \in RetryPixels, v \in BOOLEAN : ~FlushFailed /\ set_pixel(p[1], p[2], v)
    \/ flush_to_controller

\* The caller makes its next call after a flush that failed.  By RetryNext
\* that call is a flush, which can be made in every such state: the transport
\* may answer Ok to every call of it.
RetryCall == FlushFailed /\ nops' = nops + 1

\* The caller calls flush again after each flush that failed.
RetrySpec == Init /\ [][RetryNext]_vars /\ WF_nops(RetryCall)

(***************************************************************************)
(* Reading a flush's transport calls back as what the controller is told.  *)
(***************************************************************************)
\* The page a write_command call addresses, and the panel column it starts at
\* (the column address less the column offset).
CallPage(c) == c.cmds[1].a
CallColumn(c) == c.cmds[2].a - OFFSET

\* The framebuffer indices the data write cs[k + 1] carries, as addressed by
\* the addressing group cs[k].
SentIndices(cs, k) ==
    { CallPage(cs[k]) * 128 + c :
        c \in CallColumn(cs[k])..(CallColumn(cs[k]) + Len(cs[k + 1].bytes) - 1) }

\* Byte index idx is contained in one of the data writes of cs.
Covered(cs, idx) ==
    \E k \in 1..(Len(cs) - 1) :
        /\ cs[k].kind = "write_command" /\ cs[k].ok
        /\ cs[k + 1].kind = "write_data" /\ cs[k + 1].ok
        /\ idx \in SentIndices(cs, k)

\* The pages of the addressing groups of cs, in the order sent.
PagesVisited(cs) ==
    LET ks == { k \in 1..Len(cs) : cs[k].kind = "write_command" } IN
    [i \in 1..Cardinality(ks) |->
        CallPage(cs[CHOOSE k \in ks : Cardinality({j \in ks : j <= k}) = i])]

\* The empty sentinel of the dirty rectangle.
IsEmptySentinel(dmin, dmax) == dmin[1] > dmax[1] /\ dmin[2] > dmax[2]
\* A box.
IsBox(dmin, dmax) == dmin[1] <= dmax[1] /\ dmin[2] <= dmax[2]

(***************************************************************************)
(* C1: after any sequence of set_pixel and set_rotation calls, a flush in  *)
(* which every transport call succeeds contains, in one of its data        *)
(* writes, every framebuffer byte an in-range set_pixel wrote since the    *)
(* previous successful flush: it sends a page p and a column range with    *)
(* the byte's index equal to p * 128 + c for a column c of the range.      *)
(* The code breaks it under Rotate90 / Rotate270: set_pixel stores at      *)
(* (x / 8) * 128 + y while flush takes the pages from y and the columns    *)
(* from x.                                                                 *)
(***************************************************************************)
C1_FlushSendsEveryWrittenByte ==
    [][(op'.name = "flush" /\ result' = "ok" /\ pure)
        => \A idx \in written : Covered(calls', idx)]_vars

(***************************************************************************)
(* C2: in every reachable state the dirty rectangle is the empty sentinel  *)
(* (min.x > max.x and min.y > max.y) or a box (min.x <= max.x and          *)
(* min.y <= max.y) that contains every logical (x, y) an in-range          *)
(* set_pixel was given since the dirty rectangle was last reset.           *)
(* The code breaks it: force_full_dirty_area shrinks a rectangle that      *)
(* holds a Rotate90 / Rotate270 pixel with y > 63 to (0,0)-(127,63).       *)
(***************************************************************************)
C2_DirtyRectangleHoldsPendingPixels ==
    \/ IsEmptySentinel(dirty_area_min, dirty_area_max)
    \/ /\ IsBox(dirty_area_min, dirty_area_max)
       /\ \A p \in pending :
            /\ dirty_area_min[1] <= p[1] /\ p[1] <= dirty_area_max[1]
            /\ dirty_area_min[2] <= p[2] /\ p[2] <= dirty_area_max[2]

\* What a transport call carried, whatever the transport answered.
Payload(c) == <<c.kind, c.cmds, c.bytes>>

(***************************************************************************)
(* C3: when a transport call of flush fails, flush returns the error at    *)
(* once (the failed call is the last one it makes) and leaves the dirty    *)
(* rectangle and the framebuffer as they were; a flush that follows        *)
(* starts at the same page and sends the same pages and column ranges.     *)
(***************************************************************************)
C3_FailedFlushKeepsDirtyArea ==
    [][ /\ (op'.name = "flush" /\ result' = "err")
            => /\ buffer' = buffer
               /\ dirty_area_min' = dirty_area_min
               /\ dirty_area_max' = dirty_area_max
               /\ Len(calls') >= 1
               /\ \A i \in 1..Len(calls') : calls'[i].ok <=> (i < Len(calls'))
        /\ (op.name = "flush" /\ result = "err" /\ op'.name = "flush")
            => /\ Len(calls') >= 1
               /\ result' = "ok" => Len(calls') >= Len(calls)
               /\ \A i \in 1..Min(Len(calls), Len(calls')) :
                    Payload(calls'[i]) = Payload(calls[i])
      ]_vars

\* A flush stopped by the failure of its third transport call, the addressing
\* group of its second page, with the dirty rectangle still in place.
C3_Witness ==
    /\ op.name = "flush"
    /\ result = "err"
    /\ Len(calls) = 3
    /\ IsBox(dirty_area_min, dirty_area_max)
    /\ pending # {}

(***************************************************************************)
(* C4: flush on an empty dirty rectangle returns success, makes no         *)
(* transport call and leaves the framebuffer, the dirty rectangle and the  *)
(* rotation unchanged.                                                     *)
(***************************************************************************)
C4_EmptyFlushIsNoOp ==
    [][(op'.name = "flush" /\ IsEmptySentinel(dirty_area_min, dirty_area_max))
        => /\ result' = "ok"
           /\ calls' = << >>
           /\ buffer' = buffer
           /\ dirty_area_min' = dirty_area_min
           /\ dirty_area_max' = dirty_area_max
           /\ display_rotation' = display_rotation]_vars

\* A flush that made no transport call, as the third operation on a driver
\* whose framebuffer holds a set pixel: the dirty rectangle was emptied by a
\* reset_dirty_area or by a successful flush before it.
C4_Witness ==
    /\ op.name = "flush"
    /\ result = "ok"
    /\ calls = << >>
    /\ buffer # << >>
    /\ nops = 3
    /\ op.r = "Rotate0"
    /\ IsEmptySentinel(dirty_area_min, dirty_area_max)

(***************************************************************************)
(* C5: the transport calls of one flush alternate write_command,           *)
(* write_data; each write_command carries the page address, the column     *)
(* low and the column high command, in this order, and comes before the    *)
(* data write of its page; the pages of successive groups strictly ascend. *)
(***************************************************************************)
C5_FlushCallOrder ==
    op.name \in {"flush", "flush_all"} =>
        /\ \A i \in 1..Len(calls) :
            IF i % 2 = 1
            THEN /\ calls[i].kind = "write_command"
                 /\ Len(calls[i].cmds) = 3
                 /\ calls[i].cmds[1].t = "PageAddress"
                 /\ calls[i].cmds[2].t = "ColumnAddressLow"
                 /\ calls[i].cmds[3].t = "ColumnAddressHigh"
            ELSE calls[i].kind = "write_data"
        /\ \A i, j \in 1..Len(calls) :
            (i % 2 = 1 /\ j % 2 = 1 /\ i < j) => CallPage(calls[i]) < CallPage(calls[j])

\* A successful flush of more than one page.
C5_Witness ==
    /\ op.name = "flush"
    /\ result = "ok"
    /\ Len(calls) >= 6

(***************************************************************************)
(* C6: a successful flush of a non-empty dirty rectangle visits exactly    *)
(* the pages dirty-min-y / 8 to dirty-max-y / 8 inclusive, under every     *)
(* rotation, with one addressing group and one data write per page.        *)
(* The code breaks it under Rotate90 / Rotate270, where the dirty          *)
(* rectangle reaches y = 127 and Page::from masks the page to 3 bits.      *)
(***************************************************************************)
C6_FlushVisitsDirtyPages ==
    [][(op'.name = "flush" /\ result' = "ok"
            /\ ~IsEmptySentinel(dirty_area_min, dirty_area_max))
        => LET first == dirty_area_min[2] \div 8
               last == dirty_area_max[2] \div 8
           IN /\ PagesVisited(calls') = [i \in 1..(last - first + 1) |-> first + i - 1]
              /\ Len(calls') = 2 * (last - first + 1)]_vars

(***************************************************************************)
(* C7: flush_all, from any state and under any rotation, sets the dirty    *)
(* rectangle to (0,0)-(127,63); when the transport succeeds it makes 16    *)
(* transport calls: for each page 0..7, in order, one addressing group of  *)
(* 3 commands with column address 2 (the column offset) and one data       *)
(* write of the 128 bytes of that page band.                               *)
(***************************************************************************)
C7_FlushAllSendsEveryPage ==
    [][op'.name = "flush_all"
        => /\ result' = "err"
                => /\ dirty_area_min' = <<0, 0>>
                   /\ dirty_area_max' = <<127, 63>>
           /\ result' = "ok"
                => /\ Len(calls') = 16
                   /\ \A p \in 0..7 :
                        LET c == calls'[2 * p + 1]
                            w == calls'[2 * p + 2]
                        IN /\ c.kind = "write_command" /\ c.ok
                           /\ Len(c.cmds) = 3
                           /\ c.cmds[1] = Cmd("PageAddress", p, 0)
                           /\ CommandWire(c.cmds[1]) = <<176 + p>>
                           /\ c.cmds[2].t = "ColumnAddressLow"
                           /\ c.cmds[3].t = "ColumnAddressHigh"
                           /\ 16 * (CommandWire(c.cmds[3])[1] % 16)
                                + (CommandWire(c.cmds[2])[1] % 16) = 2
                           /\ w.kind = "write_data" /\ w.ok
                           /\ w.bytes = [i \in 1..128 |->
                                            BufferByte(buffer, p * 128 + i - 1)]
                           /\ buffer' = buffer
      ]_vars

\* A successful flush_all under Rotate90 of a framebuffer that holds a set
\* pixel, from a dirty rectangle that was not the full panel.
C7_Witness ==
    /\ op.name = "flush_all"
    /\ result = "ok"
    /\ op.r = "Rotate90"
    /\ buffer # << >>
    /\ Len(calls) = 16

(***************************************************************************)
(* C8: after a flush in which every transport call succeeds the dirty      *)
(* rectangle is the empty sentinel min = (128, 64), max = (0, 0), and a    *)
(* second flush with no set_pixel in between makes no transport call.      *)
(***************************************************************************)
C8_SuccessfulFlushResetsDirtyArea ==
    [][ /\ (op'.name \in {"flush", "flush_all"} /\ result' = "ok")
            => /\ dirty_area_min' = <<128, 64>>
               /\ dirty_area_max' = <<0, 0>>
        /\ (op.name \in {"flush", "flush_all"} /\ result = "ok" /\ op'.name = "flush")
            => /\ calls' = << >>
               /\ result' = "ok"
      ]_vars

\* A successful flush that sent pages and left the empty sentinel.
C8_Witness ==
    /\ op.name = "flush"
    /\ result = "ok"
    /\ Len(calls) >= 2
    /\ dirty_area_min = <<128, 64>>
    /\ dirty_area_max = <<0, 0>>

\* The logical bounds of a rotation: 128 x 64 at 0 / 180 degrees, 64 x 128 at
\* 90 / 270 degrees.
InBounds(r, x, y) ==
    IF r \in {"Rotate0", "Rotate180"} THEN x < 128 /\ y < 64 ELSE x < 64 /\ y < 128

\* Primary and secondary coordinate of a logical pixel.
Primary(r, x, y) == IF r \in {"Rotate0", "Rotate180"} THEN y ELSE x
Secondary(r, x, y) == IF r \in {"Rotate0", "Rotate180"} THEN x ELSE y

\* The byte index and bit position of a logical pixel.
ByteIndexOf(r, x, y) == (Primary(r, x, y) \div 8) * 128 + Secondary(r, x, y)
BitPositionOf(r, x, y) == Primary(r, x, y) % 8

\* Bit b of byte i of the framebuffer.
BufferBit(buf, i, b) == (BufferByte(buf, i) \div Pow2(b)) % 2 = 1

\* Every logical pixel inside the bounds of a rotation.
AllPixels(r) ==
    IF r \in {"Rotate0", "Rotate180"}
    THEN (0..127) \X (0..63)
    ELSE (0..63) \X (0..127)

\* For every pixel of every rotation the code's index and mask are those of the
\* formula.
PixelAddrMatchesFormula ==
    \A r \in DisplayRotation : \A p \in AllPixels(r) :
        PixelAddr(r, p[1], p[2])
            = <<ByteIndexOf(r, p[1], p[2]), Pow2(BitPositionOf(r, p[1], p[2]))>>

\* Under each rotation the 8192 pixels have 8192 distinct (byte, mask) addresses.
PixelAddrInjective ==
    \A r \in DisplayRotation :
        Cardinality({ PixelAddr(r, p[1], p[2]) : p \in AllPixels(r) }) = 128 * 64

(***************************************************************************)
(* C9: under every rotation an in-range set_pixel(x, y, v) makes the bit   *)
(* at byte (primary / 8) * 128 + secondary, position primary mod 8, equal  *)
(* to v and leaves every other bit of the framebuffer unchanged (primary   *)
(* is y at 0 / 180 degrees and x at 90 / 270 degrees); distinct in-range   *)
(* pixels of one rotation have distinct (byte, bit) addresses, so every    *)
(* pixel set under the rotation in force reads back as the last value set  *)
(* for it.                                                                 *)
(***************************************************************************)
C9_SetPixelAddressing ==
    /\ [][(op'.name = "set_pixel" /\ InBounds(display_rotation, op'.x, op'.y))
            => LET idx == ByteIndexOf(display_rotation, op'.x, op'.y)
                   bit == BitPositionOf(display_rotation, op'.x, op'.y)
               IN /\ idx < 1024
                  /\ BufferBit(buffer', idx, bit) = op'.v
                  /\ \A b \in 0..7 \ {bit} :
                        BufferBit(buffer', idx, b) = BufferBit(buffer, idx, b)
                  /\ \A i \in (DOMAIN buffer \cup DOMAIN buffer') \ {idx} :
                        BufferByte(buffer', i) = BufferByte(buffer, i)
         ]_vars
    /\ [](\A p \in DOMAIN shadow :
            BufferBit(buffer, ByteIndexOf(display_rotation, p[1], p[2]),
                      BitPositionOf(display_rotation, p[1], p[2])) = shadow[p])
    /\ []PixelAddrMatchesFormula
    /\ []PixelAddrInjective
    /\ [](\A p, q \in DOMAIN shadow :
            p # q =>
                <<ByteIndexOf(display_rotation, p[1], p[2]),
                  BitPositionOf(display_rotation, p[1], p[2])>>
              # <<ByteIndexOf(display_rotation, q[1], q[2]),
                  BitPositionOf(display_rotation, q[1], q[2])>>)

\* Under Rotate0, pixel (10, 10) cleared in a byte whose bit 3, pixel (10, 11),
\* stays set.
C9_Witness ==
    /\ op = Op("set_pixel", 10, 10, FALSE, "Rotate0")
    /\ BufferByte(buffer, 138) = 8
    /\ DOMAIN shadow = {<<10, 10>>, <<10, 11>>}

(***************************************************************************)
(* C10: set_pixel(x, y, v) with (x, y) outside the logical bounds of the   *)
(* rotation in force (x >= 128 or y >= 64 at 0 / 180 degrees, x >= 64 or   *)
(* y >= 128 at 90 / 270 degrees) changes neither the framebuffer nor the   *)
(* dirty rectangle; set_pixel(200, 5, v) at Rotate0 is such a call.        *)
(***************************************************************************)
C10_OutOfRangeSetPixelIsNoOp ==
    [][(op'.name = "set_pixel" /\ ~InBounds(display_rotation, op'.x, op'.y))
        => /\ buffer' = buffer
           /\ dirty_area_min' = dirty_area_min
           /\ dirty_area_max' = dirty_area_max]_vars

\* set_pixel(200, 5, TRUE) at Rotate0 on a canvas with a pixel pending.
C10_Witness ==
    /\ op = Op("set_pixel", 200, 5, TRUE, "Rotate0")
    /\ pending # {}
    /\ buffer # << >>

\* The bytes of a command sequence: the encodings of its commands, in order.
RECURSIVE WireBytes(_)
WireBytes(cmds) ==
    IF cmds = << >> THEN << >>
    ELSE CommandWire(Head(cmds)) \o WireBytes(Tail(cmds))

\* The operation made exactly one transport call, a write_command (so no
\* write_data), and the canvas is as it was but for the rotation.
OneCommandCallOnly ==
    /\ Len(calls') = 1
    /\ calls'[1].kind = "write_command"
    /\ buffer' = buffer
    /\ dirty_area_min' = dirty_area_min
    /\ dirty_area_max' = dirty_area_max

\* The two command bytes of each rotation.
RotationBytes ==
    [Rotate0 |-> <<161, 200>>, Rotate90 |-> <<160, 200>>,
     Rotate180 |-> <<160, 192>>, Rotate270 |-> <<161, 192>>]

(***************************************************************************)
(* C11: set_rotation(mode) makes exactly one write_command carrying        *)
(* exactly 2 commands that depend only on mode, whatever was called        *)
(* before: Rotate0 -> (0xA1, 0xC8), Rotate90 -> (0xA0, 0xC8),              *)
(* Rotate180 -> (0xA0, 0xC0), Rotate270 -> (0xA1, 0xC0); it makes no       *)
(* write_data and leaves the framebuffer and the dirty rectangle           *)
(* unchanged.                                                              *)
(***************************************************************************)
C11_SetRotationCommands ==
    [][op'.name = "set_rotation"
        => /\ OneCommandCallOnly
           /\ Len(calls'[1].cmds) = 2
           /\ WireBytes(calls'[1].cmds) = RotationBytes[op'.r]
           /\ display_rotation' = op'.r]_vars

\* set_rotation(Rotate0) as the third operation, after a rotation away from
\* Rotate0 under which a pixel outside the 128 x 64 box was set.
C11_Witness ==
    /\ op.name = "set_rotation"
    /\ op.r = "Rotate0"
    /\ result = "ok"
    /\ nops = 3
    /\ \E p \in pending : p[2] >= 64

(***************************************************************************)
(* C12: init makes exactly one write_command carrying 15 commands in this  *)
(* order: display off, clock divider(8, 0), multiplex(height - 1 = 63),    *)
(* display offset 0, start line 0, charge pump on, segment remap on,       *)
(* reverse COM on, alternative COM pins, contrast 0x80, precharge(1, 15),  *)
(* Vcomh auto, test-screen off, positive image, display on; its remap and  *)
(* reverse-COM commands are those of set_rotation(Rotate0); it makes no    *)
(* write_data and leaves framebuffer, dirty rectangle and rotation         *)
(* unchanged.                                                              *)
(***************************************************************************)
C12_InitSequence ==
    [][op'.name = "init"
        => /\ OneCommandCallOnly
           /\ display_rotation' = display_rotation
           /\ Len(calls'[1].cmds) = 15
           /\ [i \in 1..15 |-> calls'[1].cmds[i].t]
                = << "TurnDisplayOff", "DisplayClockDiv", "Multiplex", "DisplayOffset",
                     "StartLine", "EnableChargePump", "EnableSegmentRemap",
                     "EnableReverseComDir", "AlternativeComPinConfig", "Contrast",
                     "PreChargePeriod", "VcomhDeselect", "DisableTestScreen",
                     "PositiveImageMode", "TurnDisplayOn" >>
           /\ WireBytes(calls'[1].cmds)
                = << 174, 213, 128, 168, 63, 211, 0, 64, 173, 139, 161, 200,
                     218, 18, 129, 128, 217, 241, 219, 64, 164, 166, 175 >>
           /\ SubSeq(calls'[1].cmds, 7, 8) = RotationSequence("Rotate0")
      ]_vars

\* init under Rotate180 on a canvas with a pixel pending.
C12_Witness ==
    /\ op.name = "init"
    /\ op.r = "Rotate180"
    /\ result = "ok"
    /\ Len(calls) = 1
    /\ pending # {}

(***************************************************************************)
(* C18: test_screen makes exactly one write_command carrying the single    *)
(* command byte 0xA5, makes no write_data, and leaves the framebuffer, the *)
(* dirty rectangle and the rotation unchanged, whether or not the          *)
(* transport call succeeds.                                                *)
(***************************************************************************)
C18_TestScreenCommand ==
    [][op'.name = "test_screen"
        => /\ OneCommandCallOnly
           /\ display_rotation' = display_rotation
           /\ Len(calls'[1].cmds) = 1
           /\ WireBytes(calls'[1].cmds) = <<165>>]_vars

\* test_screen whose transport call failed, on a canvas with a pixel pending.
C18_Witness ==
    /\ op.name = "test_screen"
    /\ result = "err"
    /\ ~calls[1].ok
    /\ pending # {}
    /\ buffer # << >>

\* The step is a flush that returns Ok right after set_pixel(10, 10, TRUE) on
\* a Rotate0 canvas whose dirty rectangle holds that pixel alone.
FlushOfPixel_10_10 ==
    /\ op = Op("set_pixel", 10, 10, TRUE, "Rotate0")
    /\ dirty_area_min = <<10, 10>>
    /\ dirty_area_max = <<10, 10>>
    /\ op'.name = "flush"
    /\ result' = "ok"

\* The flush sent one addressing group with these three command bytes, then
\* one byte of data: byte 138 of the framebuffer, with bit 2 set.
OnePageSent(bytes) ==
    /\ Len(calls') = 2
    /\ calls'[1].kind = "write_command"
    /\ [i \in 1..3 |-> calls'[1].cmds[i].t]
            = <<"PageAddress", "ColumnAddressLow", "ColumnAddressHigh">>
    /\ WireBytes(calls'[1].cmds) = bytes
    /\ calls'[2].kind = "write_data"
    /\ calls'[2].bytes = <<BufferByte(buffer, 138)>>
    /\ BufferBit(buffer, 138, 2)

(***************************************************************************)
(* C13, as stated: on the 128 x 64 panel with column offset 2 and Rotate0, *)
(* set_pixel(10, 10, true) followed by flush() addresses page 1 (byte      *)
(* 0xB1), sends the column commands for address 12 with command bytes      *)
(* 0x1C and 0x11, and then makes a one-byte data write.                    *)
(* The code sends 0x0C and 0x10: 12 has low nibble 0xC and high nibble 0,  *)
(* and the column-low command carries no 0x10 bit.                         *)
(***************************************************************************)
C13_Original ==
    [][FlushOfPixel_10_10 => OnePageSent(<<177, 28, 17>>)]_vars

(***************************************************************************)
(* C13, amended: on the 128 x 64 panel with column offset 2 and Rotate0,   *)
(* set_pixel(10, 10, true) followed by flush() addresses page 1 (byte      *)
(* 0xB1), sends the column commands for address 10 + 2 = 12 with command   *)
(* bytes 0x0C (column low, nibble 0xC) and 0x10 (column high, nibble 0x0), *)
(* and then makes a one-byte data write.                                   *)
(***************************************************************************)
C13_FlushOfOnePixel ==
    [][FlushOfPixel_10_10 => OnePageSent(<<177, 12, 16>>)]_vars

\* The flush of the scenario has run from a new driver: set_pixel, then flush.
C13_Witness ==
    /\ op = Op("flush", 0, 0, FALSE, "Rotate0")
    /\ result = "ok"
    /\ nops = 2
    /\ Len(calls) = 2
    /\ calls[1].cmds[1].a = 1
    /\ calls[2].bytes = <<4>>

(***************************************************************************)
(* C20: for every page a flush sends, the data write carries exactly the   *)
(* framebuffer bytes at indices page * 128 + dirty-min-x to page * 128 +   *)
(* dirty-max-x inclusive (dirty-max-x - dirty-min-x + 1 bytes, in index    *)
(* order, with the values the framebuffer holds at the time of the flush), *)
(* and flush never modifies the framebuffer.  flush_all flushes the full   *)
(* rectangle, columns 0 to 127.                                            *)
(***************************************************************************)
C20_FlushDataSlices ==
    [][op'.name \in {"flush", "flush_all"}
        => LET min_x == IF op'.name = "flush" THEN dirty_area_min[1] ELSE 0
               max_x == IF op'.name = "flush" THEN dirty_area_max[1] ELSE 127
           IN /\ buffer' = buffer
              /\ \A k \in 1..Len(calls') :
                    calls'[k].kind = "write_data"
                        => /\ k > 1
                           /\ calls'[k - 1].kind = "write_command"
                           /\ calls'[k].bytes
                                = [i \in 1..(max_x - min_x + 1) |->
                                    BufferByte(buffer,
                                        CallPage(calls'[k - 1]) * 128 + min_x + i - 1)]
      ]_vars

\* A flush of pages 0 and 1, columns 0 to 10, whose data writes carry the
\* bytes of pixels (0, 0) and (10, 10).
C20_Witness ==
    /\ op.name = "flush"
    /\ result = "ok"
    /\ Len(calls) = 4
    /\ Len(calls[2].bytes) = 11
    /\ calls[2].bytes[1] = 1
    /\ calls[4].bytes[11] = 4

\* The logical size of a rotation.
LogicalSize(r) == IF r \in {"Rotate0", "Rotate180"} THEN <<128, 64>> ELSE <<64, 128>>

\* set_pixel applied, in order, to the pixels of the sequence from the k-th on
\* whose position is inside the logical bounds of the rotation.
RECURSIVE ApplyInBounds(_, _, _, _)
ApplyInBounds(c, r, pixels, k) ==
    IF k > Len(pixels) THEN c
    ELSE LET p == pixels[k] IN
         ApplyInBounds(IF p[1] >= 0 /\ p[2] >= 0 /\ InBounds(r, p[1], p[2])
                       THEN SetPixelOn(c, r, p[1], p[2], p[3])
                       ELSE c,
                       r, pixels, k + 1)

(***************************************************************************)
(* C17: the logical size the canvas reports to the graphics layer is       *)
(* (128, 64) at 0 / 180 degrees and the transposed (64, 128) at 90 / 270   *)
(* degrees, and draw_iter applies via set_pixel exactly those (position,   *)
(* colour) pairs whose position is inside the logical bounds that          *)
(* set_pixel checks for the rotation in force, discarding all others.      *)
(* The code breaks it at 90 / 270 degrees: size() is (128, 64) under every *)
(* rotation, and draw_iter discards the pixels with y >= 64.               *)
(***************************************************************************)
C17_DrawIterClipsToLogicalBounds ==
    /\ [](size = LogicalSize(display_rotation))
    /\ [][op'.name = "draw_iter"
            => LET c == ApplyInBounds(CanvasNow, display_rotation, op'.pixels, 1)
               IN /\ buffer' = c.buffer
                  /\ dirty_area_min' = c.dirty_area_min
                  /\ dirty_area_max' = c.dirty_area_max]_vars

(***************************************************************************)
(* C14: write_command on the I2C transport transmits one bus transaction   *)
(* that consists of exactly one mode byte 0x00 followed by the             *)
(* concatenation, in order, of every command's encoded bytes (the          *)
(* serializer writes them starting at offset 0 of the region it is given), *)
(* so the transaction length is 1 + the sum of the commands' encoded       *)
(* lengths.  Stated for the sequences that, with the mode byte, fit the    *)
(* 30-byte send buffer.                                                    *)
(* The code breaks it: to_bytes starts writing at offset 1 of the region,  *)
(* so a second 0x00 byte follows the mode byte and the transaction is one  *)
(* byte longer.                                                            *)
(***************************************************************************)
C14_I2cWriteCommandTransaction ==
    [][(op'.name = "write_command" /\ 1 + EncodedLength(op'.cmds) <= 30)
        => /\ result' = (IF op'.i2c_ok THEN "ok" ELSE "I2cError")
           /\ bus' = << <<0>> \o WireBytes(op'.cmds) >>
           /\ Len(bus'[1]) = 1 + EncodedLength(op'.cmds)
           /\ SubSeq(dest'.buffer, 1, EncodedLength(op'.cmds)) = WireBytes(op'.cmds)
      ]_vars

(***************************************************************************)
(* C15: CommandBuffer::to_bytes never writes outside the destination       *)
(* slice; given a destination exactly large enough for the sequence        *)
(* (length equal to the sum of the commands' encoded lengths) it succeeds  *)
(* and returns the byte-exact concatenation of the encodings, and given a  *)
(* destination one byte smaller it returns CommandBufferSizeError.         *)
(* The code breaks it: output_length starts at 1, so the exact-size        *)
(* destination is reported too small, and a destination one byte larger    *)
(* yields the concatenation behind one untouched byte.                     *)
(***************************************************************************)
C15_ToBytesExactFit ==
    [][op'.name = "CommandBuffer::to_bytes"
        => /\ Len(dest'.buffer) = op'.len
           /\ op'.len = EncodedLength(op'.cmds)
                => /\ result' = "ok"
                   /\ dest'.ret = WireBytes(op'.cmds)
           /\ op'.len = EncodedLength(op'.cmds) - 1
                => result' = "CommandBufferSizeError"
      ]_vars

(***************************************************************************)
(* C16: I2C write_data with a slice of at most 128 bytes transmits one bus *)
(* transaction made of the mode byte 0x40 followed by exactly the slice's  *)
(* bytes (length + 1 bytes); with a slice longer than 128 bytes it returns *)
(* DataBufferSizeError and makes no bus transaction.                       *)
(***************************************************************************)
C16_I2cWriteData ==
    [][op'.name = "write_data"
        => IF Len(op'.data) <= 128
           THEN /\ result' = (IF op'.i2c_ok THEN "ok" ELSE "I2cError")
                /\ bus' = << <<64>> \o op'.data >>
                /\ Len(bus'[1]) = Len(op'.data) + 1
           ELSE /\ result' = "DataBufferSizeError"
                /\ bus' = << >>
      ]_vars

\* A write_data of the largest slice accepted: 129 bytes on the bus.
C16_Witness ==
    /\ op.name = "write_data"
    /\ Len(op.data) = 128
    /\ result = "ok"
    /\ Len(bus) = 1
    /\ Len(bus[1]) = 129
    /\ bus[1][129] = op.data[128]

\* The encoding table: the bytes of a command, in arithmetic on the parameter
\* bytes a and b.
EncodingTable(c) ==
    CASE c.t = "Contrast" -> <<129, c.a>>
      [] c.t = "EnableTestScreen" -> <<165>>
      [] c.t = "DisableTestScreen" -> <<164>>
      [] c.t = "PositiveImageMode" -> <<166>>
      [] c.t = "NegativeImageMode" -> <<167>>
      [] c.t = "TurnDisplayOn" -> <<175>>
      [] c.t = "TurnDisplayOff" -> <<174>>
      [] c.t = "ColumnAddressLow" -> <<c.a % 16>>
      [] c.t = "ColumnAddressHigh" -> <<16 + (c.a % 16)>>
      [] c.t = "PageAddress" -> <<176 + c.a>>
      [] c.t = "StartLine" -> <<64 + (c.a % 64)>>
      [] c.t = "EnableSegmentRemap" -> <<161>>
      [] c.t = "DisableSegmentRemap" -> <<160>>
      [] c.t = "Multiplex" -> <<168, c.a>>
      [] c.t = "EnableReverseComDir" -> <<200>>
      [] c.t = "DisableReverseComDir" -> <<192>>
      [] c.t = "DisplayOffset" -> <<211, c.a>>
      [] c.t = "AlternativeComPinConfig" -> <<218, 18>>
      [] c.t = "SequentialComPinConfig" -> <<218, 2>>
      [] c.t = "DisplayClockDiv" -> <<213, 16 * (c.a % 16) + (c.b % 16)>>
      [] c.t = "PreChargePeriod" -> <<217, 16 * (c.b % 16) + (c.a % 16)>>
      [] c.t = "VcomhDeselect" -> <<219, 16 * c.a>>
      [] c.t = "Noop" -> <<227>>
      [] c.t = "EnableChargePump" -> <<173, 139>>
      [] c.t = "DisableChargePump" -> <<173, 138>>

\* Every variant with every parameter byte: each u8 parameter takes every
\* value 0..255, the other parameter of a two-parameter variant taking the
\* values of ParamBytes or SecondParamBytes beside it.
EveryParameterByte ==
    { Cmd(t, 0, 0) : t \in {"EnableTestScreen", "DisableTestScreen", "PositiveImageMode",
                            "NegativeImageMode", "TurnDisplayOn", "TurnDisplayOff",
                            "EnableSegmentRemap", "DisableSegmentRemap",
                            "EnableReverseComDir", "DisableReverseComDir",
                            "AlternativeComPinConfig", "SequentialComPinConfig",
                            "Noop", "EnableChargePump", "DisableChargePump"} }
    \cup { Cmd(t, a, 0) : t \in {"Contrast", "ColumnAddressLow", "ColumnAddressHigh",
                                 "StartLine", "Multiplex", "DisplayOffset"},
                          a \in 0..255 }
    \cup { Cmd("PageAddress", p, 0) : p \in 0..7 }
    \cup { Cmd("VcomhDeselect", l, 0) : l \in 1..4 }
    \cup { Cmd(t, a, b) : t \in {"DisplayClockDiv", "PreChargePeriod"},
                          a \in 0..255, b \in SecondParamBytes }
    \cup { Cmd(t, a, b) : t \in {"DisplayClockDiv", "PreChargePeriod"},
                          a \in ParamBytes, b \in 0..255 }

\* The code's encoding of a command is the table's, with the used length the
\* variant's fixed length.
EncodesAsTable(c) ==
    LET e == CommandToBytes(c)
        row == EncodingTable(c)
    IN /\ SubSeq(e[1], 1, e[2]) = row
       /\ e[2] = get_byte_size(c)
       /\ e[2] = Len(row)
       /\ Len(e[1]) = 2

EveryParameterByteEncodesAsTable == \A c \in EveryParameterByte : EncodesAsTable(c)

(***************************************************************************)
(* C19: for every Command variant and every parameter byte,                *)
(* Command::to_bytes returns the opcode and parameter bytes of the         *)
(* encoding table with a used length equal to the variant's fixed length   *)
(* (1 or 2) as given by get_byte_size, and the result is a function of the *)
(* command value alone: a call returns what the call before it returned    *)
(* for the same command.                                                   *)
(***************************************************************************)
C19_CommandEncoding ==
    /\ [][op'.name = "Command::to_bytes"
            => /\ dest'.ret = EncodingTable(op'.cmd)
               /\ Len(dest'.ret) = get_byte_size(op'.cmd)
               /\ Len(dest'.ret) \in {1, 2}
               /\ Len(dest'.buffer) = 2
               /\ (op.name = "Command::to_bytes" /\ op.cmd = op'.cmd) => dest' = dest
         ]_vars
    /\ []EveryParameterByteEncodesAsTable

\* Command::to_bytes of VcomhDeselect(Auto) called twice in a row.
C19_Witness ==
    /\ op.name = "Command::to_bytes"
    /\ op.cmd = Cmd("VcomhDeselect", 4, 0)
    /\ dest.ret = <<219, 64>>
    /\ nops = 2

\* The column address the two column commands of an addressing group encode:
\* 16 * (low nibble of the column-high byte) + (low nibble of the column-low
\* byte).
EncodedColumn(cmds) ==
    16 * (CommandWire(cmds[3])[1] % 16) + (CommandWire(cmds[2])[1] % 16)

\* The addressing group the code builds for each dirty-min-x from 0 to 127 and
\* each page encodes dirty-min-x + 2.
EveryColumnEncodedInFull ==
    \A x \in 0..127 : \A page \in 0..7 :
        LET g == AddressingGroup(page, <<x, 0>>) IN
        /\ g[2].t = "ColumnAddressLow"
        /\ g[3].t = "ColumnAddressHigh"
        /\ EncodedColumn(g) = x + 2

(***************************************************************************)
(* C21: for every dirty-min-x a flush can see (0 to 127), with column      *)
(* offset 2, the two column commands of the addressing group encode the    *)
(* full column address without truncation: 16 * (low nibble of the         *)
(* column-address-high byte) + (low nibble of the column-address-low byte) *)
(* equals dirty-min-x + 2.  It holds for every addressing group a flush or *)
(* a flush_all sends, and for the group of every dirty-min-x from 0 to     *)
(* 127.                                                                    *)
(***************************************************************************)
C21_ColumnAddressInFull ==
    /\ [][op'.name \in {"flush", "flush_all"}
            => LET min_x == IF op'.name = "flush" THEN dirty_area_min[1] ELSE 0 IN
               \A k \in 1..Len(calls') :
                    calls'[k].kind = "write_command"
                        => /\ min_x \in 0..127
                           /\ EncodedColumn(calls'[k].cmds) = min_x + 2]_vars
    /\ []EveryColumnEncodedInFull

\* A flush whose dirty rectangle starts at the last column, x = 127: the
\* column address 129 = 0x81 needs both nibbles.
C21_Witness ==
    /\ op.name = "flush"
    /\ Len(calls) >= 1
    /\ calls[1].cmds[2] = Cmd("ColumnAddressLow", 129, 0)
    /\ calls[1].cmds[3] = Cmd("ColumnAddressHigh", 8, 0)
    /\ CommandWire(calls[1].cmds[2]) = <<1>>
    /\ CommandWire(calls[1].cmds[3]) = <<24>>

\* The pages the loop of flush goes through for a dirty rectangle.
PagesOfFlush(dmin, dmax) == PageRange(StartPage(dmin), EndPage(dmax))

\* No page of the loop ends past the framebuffer.
NoPagePastBuffer(dmin, dmax) ==
    \A i \in DOMAIN PagesOfFlush(dmin, dmax) :
        PagesOfFlush(dmin, dmax)[i] * 128 + dmax[1] < 1024

(***************************************************************************)
(* C22: the defensive abort in flush is unreachable: in every reachable    *)
(* state with a non-empty dirty rectangle, for every page flush visits,    *)
(* page * 128 + dirty-max-x is less than the framebuffer length 1024, so   *)
(* flush never stops early and never resets the dirty rectangle with pages *)
(* left unsent: a flush that returns Ok has made the two transport calls   *)
(* of every page of its loop, in order.  The same holds of the full        *)
(* rectangle that flush_all flushes.                                       *)
(***************************************************************************)
C22_FlushAbortUnreachable ==
    /\ [](~FlushIsEmpty(dirty_area_min, dirty_area_max)
            => NoPagePastBuffer(dirty_area_min, dirty_area_max))
    /\ []NoPagePastBuffer(FullDirtyArea[1], FullDirtyArea[2])
    /\ [][(op'.name = "flush" /\ result' = "ok"
                /\ ~FlushIsEmpty(dirty_area_min, dirty_area_max))
            => /\ PagesVisited(calls') = PagesOfFlush(dirty_area_min, dirty_area_max)
               /\ Len(calls') = 2 * Len(PagesOfFlush(dirty_area_min, dirty_area_max))
         ]_vars
    /\ [][(op'.name = "flush_all" /\ result' = "ok")
            => PagesVisited(calls') = <<0, 1, 2, 3, 4, 5, 6, 7>>]_vars

\* A flush under Rotate90 of the dirty rectangle (0, 64)-(0, 100), whose rows
\* 64 and 100 lie in pages 8 and 12 before the mask: it sent pages 0 to 4.
C22_Witness ==
    /\ op.name = "flush"
    /\ op.r = "Rotate90"
    /\ result = "ok"
    /\ PagesVisited(calls) = <<0, 1, 2, 3, 4>>
    /\ BufferByte(buffer, 100) = 1

\* The coordinates the range check is tried on: every value below the larger
\* panel dimension, and two past it.
CoordinateRange == 0..129

\* Under every rotation, every (x, y) that passes set_pixel's range check has
\* its byte index inside the framebuffer.
EveryInRangeIndexInBuffer ==
    \A r \in DisplayRotation : \A x \in CoordinateRange, y \in CoordinateRange :
        InLogicalRange(r, x, y) => PixelAddr(r, x, y)[1] < 1024

(***************************************************************************)
(* C23: the defensive bound in set_pixel is unreachable: for every         *)
(* rotation and every (x, y) that passes the range check, the computed     *)
(* byte index is less than the framebuffer length 1024, so an in-range     *)
(* set_pixel is never silently dropped: the bit of the pixel holds the     *)
(* value set.                                                              *)
(***************************************************************************)
C23_SetPixelBoundUnreachable ==
    /\ [][(op'.name = "set_pixel" /\ InLogicalRange(display_rotation, op'.x, op'.y))
            => LET a == PixelAddr(display_rotation, op'.x, op'.y) IN
               /\ a[1] < 1024
               /\ a[1] \in written'
               /\ (BitAnd(BufferByte(buffer', a[1]), a[2]) = a[2]) = op'.v
         ]_vars
    /\ []EveryInRangeIndexInBuffer

\* set_pixel(63, 127, TRUE) under Rotate90, the pixel of the last bit of the
\* last byte of the framebuffer.
C23_Witness ==
    /\ op = Op("set_pixel", 63, 127, TRUE, "Rotate90")
    /\ 1023 \in written
    /\ BufferByte(buffer, 1023) >= 128

(***************************************************************************)
(* C24: in every reachable state with a non-empty dirty rectangle, the     *)
(* start page flush computes is less than or equal to the end page it      *)
(* computes, so a flush of a non-empty dirty rectangle transmits at least  *)
(* one page before it resets the dirty rectangle.                          *)
(* The code breaks it under Rotate90 / Rotate270: set_pixel records the    *)
(* logical y, up to 127, in the dirty rectangle, and Page::from masks the  *)
(* page to 3 bits, so rows 60 to 100 give start page 7 and end page 4.     *)
(***************************************************************************)
C24_StartPageNotAfterEndPage ==
    /\ [](~FlushIsEmpty(dirty_area_min, dirty_area_max)
            => StartPage(dirty_area_min) <= EndPage(dirty_area_max))
    /\ [][(op'.name = "flush" /\ result' = "ok"
                /\ ~FlushIsEmpty(dirty_area_min, dirty_area_max))
            => /\ Len(calls') >= 2
               /\ calls'[1].kind = "write_command"
               /\ calls'[2].kind = "write_data"]_vars

(***************************************************************************)
(* C25: in every reachable state with a non-empty dirty rectangle, the     *)
(* rectangle lies inside the physical panel: max.x <= 127 and              *)
(* max.y <= 63, whatever rotations were active when the pixels were set.   *)
(* The code breaks it: under Rotate90 / Rotate270 set_pixel admits y up to *)
(* 127 and records it in the dirty rectangle as it is.                     *)
(***************************************************************************)
C25_DirtyRectangleInsidePanel ==
    ~FlushIsEmpty(dirty_area_min, dirty_area_max)
        => /\ dirty_area_max[1] <= 127
           /\ dirty_area_max[2] <= 63

\* What an I2cInterface answers to a transport call of the driver and puts on
\* the bus, when the write on the I2C peripheral returns i2c_ok.
OverI2c(c, i2c_ok) ==
    IF c.kind = "write_command"
    THEN I2cWriteCommand(c.cmds, i2c_ok)
    ELSE I2cWriteData(c.bytes, i2c_ok)

(***************************************************************************)
(* C26: in every reachable state, every transport call that init,          *)
(* set_rotation, test_screen, flush and flush_all issue through the I2C    *)
(* transport fits the transport's fixed buffers: each command sequence     *)
(* (15, 2, 1 or 3 commands) serializes inside the 30-byte send buffer and  *)
(* each flush data slice has at most 128 bytes, so these operations never  *)
(* return CommandBufferSizeError or DataBufferSizeError: the transport     *)
(* answers Ok, or the error of the I2C peripheral.                         *)
(***************************************************************************)
C26_TransportCallsFitBuffers ==
    op.name \in {"init", "set_rotation", "test_screen", "flush", "flush_all"}
        => \A k \in 1..Len(calls) :
            /\ \A i2c_ok \in BOOLEAN : \A w \in {OverI2c(calls[k], i2c_ok)} :
                   /\ w.result = (IF i2c_ok THEN "ok" ELSE "I2cError")
                   /\ Len(w.bus) = 1
                   /\ Len(w.bus[1])
                        <= (IF calls[k].kind = "write_command" THEN 30 ELSE 130)
            /\ calls[k].kind = "write_command"
                => /\ Len(calls[k].cmds) \in {15, 2, 1, 3}
                   /\ 1 + EncodedLength(calls[k].cmds) <= 30
            /\ calls[k].kind = "write_data"
                => Len(calls[k].bytes) <= 128

\* init, whose 15 commands encode in 23 bytes, the longest sequence of the
\* driver: 25 bytes on the bus.
C26_Witness ==
    /\ op.name = "init"
    /\ Len(calls) = 1
    /\ calls[1].ok
    /\ EncodedLength(calls[1].cmds) = 23
    /\ Len(OverI2c(calls[1], TRUE).bus[1]) = 25

\* Sh1106::get_rotation (sh1106.rs:134-136): the rotation the canvas stores.
get_rotation == display_rotation

(***************************************************************************)
(* C27: set_rotation stores the new rotation in the canvas before it calls *)
(* the transport: when its write_command fails, set_rotation returns the   *)
(* error and get_rotation already returns the new mode, so the stored      *)
(* rotation changes although the controller received no rotation commands  *)
(* (the one transport call made is the one that failed).                   *)
(***************************************************************************)
C27_RotationStoredBeforeTransport ==
    [][(op'.name = "set_rotation" /\ \E k \in 1..Len(calls') : ~calls'[k].ok)
        => /\ result' = "err"
           /\ get_rotation' = op'.r
           /\ Len(calls') = 1
           /\ calls'[1].kind = "write_command"
           /\ calls'[1].cmds = RotationSequence(op'.r)]_vars

\* set_rotation(Rotate90) on a new driver, failed at the transport: the
\* rotation stored is Rotate90, no longer the Rotate0 of construction.
C27_Witness ==
    /\ op.name = "set_rotation"
    /\ op.r = "Rotate90"
    /\ nops = 1
    /\ result = "err"
    /\ ~calls[1].ok
    /\ get_rotation = "Rotate90"

\* The byte the controller's RAM holds at (page, column); -1 when none was
\* received for it.
RamByte(page, column) ==
    IF <<page, column>> \in DOMAIN ram THEN ram[<<page, column>>] ELSE -1

\* For every byte written by set_pixel, the RAM holds at the byte's page and
\* at its column shifted by the offset 2 the value the framebuffer holds.
RamHoldsWrittenBytes ==
    \A p \in DOMAIN shadow :
        LET idx == ByteIndexOf("Rotate0", p[1], p[2]) IN
        RamByte(idx \div 128, (idx % 128) + 2) = BufferByte(buffer, idx)

(***************************************************************************)
(* C28: with rotation Rotate0, if the caller calls flush again after each  *)
(* failure and the transport eventually stops failing, then eventually a   *)
(* flush succeeds, the dirty rectangle is empty, and a model of the        *)
(* controller's display RAM that applies every received addressing group   *)
(* and data write (column shifted by the offset 2) holds, for every byte   *)
(* written by set_pixel, the same value as the framebuffer; every single   *)
(* flush call terminates after at most 16 transport calls.                 *)
(***************************************************************************)
C28_RetriedFlushDelivers ==
    /\ (display_rotation = "Rotate0" /\ FlushFailed)
            ~> (/\ op.name = "flush"
                /\ result = "ok"
                /\ IsEmptySentinel(dirty_area_min, dirty_area_max)
                /\ RamHoldsWrittenBytes)
    /\ [](op.name = "flush" => Len(calls) <= 16)

\* A flush of two pages that succeeded after the transport failed a flush
\* twice: the RAM holds the bytes of pixels (120, 0) and (127, 10).
C28_Witness ==
    /\ op.name = "flush"
    /\ result = "ok"
    /\ failures = 2
    /\ Len(calls) = 4
    /\ RamByte(0, 122) = 1
    /\ RamByte(1, 129) = 4
    /\ RamHoldsWrittenBytes

=============================================================================
